---- MODULE Spec2Model ----
(***************************************************************************)
(* Model of freezer/osclients.py: ClientManager (lazy, cached clients for  *)
(* cinder, swift, glance and nova, and the snapshot / volume-copy poll     *)
(* loops) and DryRunSwiftclientConnectionWrapper.                          *)
(*                                                                         *)
(* One ClientManager instance is driven by one caller.  A method call is   *)
(* one step, except the two poll loops, where one step is one iteration of *)
(* the while loop: the remote answer of that iteration (a status, or an    *)
(* exception) is the step's input.                                         *)
(***************************************************************************)
EXTENDS Integers, Sequences, FiniteSets

\* ---------------------------------------------------------------- bounds
MaxCalls == 3          \* method calls made on the manager
MaxFetch == 3          \* status fetches attempted inside one poll loop
MaxChunk == 4          \* chunk sizes tried on a stream adapter of its own
MaxLen == 9            \* stream lengths tried on a stream adapter of its own

\* ------------------------------------------------------------- constants
PollInterval == 5      \* time.sleep(5)
ExitStatus == 1        \* exit(1)
ChunkSizeMiB == 1024 * 1024
ChunkSize == 1000000   \* ReSizeStream(stream, len(stream), 1000000)

Services == {"cinder", "swift", "glance", "nova"}
Statuses == {"creating", "available", "error"}
FetchAnswers == Statuses \cup {"raise"}

VolumeIds == {"v1"}
SnapshotNames == {"snap"}
SnapshotArgs == {[id |-> "s1", size |-> 1], [id |-> "s2", size |-> 2]}
ImageNames == {"img"}
Images == {"i1"}
StreamLengths == {0, 400000, 1000000, 1500000, 2000000, 2500000}
Containers == {"c1"}
Objects == {"o1"}
UploadAnswers == {"queued", "uploading"}

ReadMethods == {"get_object", "get_account", "get_container", "head_object"}
WriteMethods == {"put_object", "put_container", "delete_object"}
SwiftMethods == ReadMethods \cup WriteMethods

None == [kind |-> "None"]

VARIABLES
  dry_run,     \* self.dry_run
  slot,        \* self.cinder, self.swift, self.glance, self.nova
  built,       \* per service: clients constructed so far
  calls,       \* method calls made so far
  op,          \* the method called last
  pc,          \* "idle", "provide_snapshot", "do_copy_volume", "exited", or
               \* "create_swift": between its two assignments to self.swift
  outcome,     \* how the last call ended, or that it is still running
  snapshot,    \* provide_snapshot's local / do_copy_volume's parameter
  volume,      \* do_copy_volume's local
  trace,       \* what the current call did: constructions, requests, sleeps,
               \* in order
  store,       \* the remote object store behind the swift connection
  threads,     \* concurrent callers of get_cinder: each one's position in
               \* it and what it was handed
  lock,        \* a lock outside the manager around get_cinder: "unused",
               \* "free" or its holder
  twin         \* a second manager with the other dry_run flag, and the
               \* call or answer both managers are given next

vars == <<dry_run, slot, built, calls, op, pc, outcome, snapshot,
          volume, trace, store, threads, lock, twin>>

\* ------------------------------------------------------------- outcomes
Running == [kind |-> "running"]
Returned(v) == [kind |-> "returned", value |-> v]
Raised == [kind |-> "raised"]
Exited(c) == [kind |-> "exited", code |-> c]

\* --------------------------------------------------------------- events
ConstructEv(s, ok) == [e |-> "construct", svc |-> s, ok |-> ok]
SleepEv(d) == [e |-> "sleep", d |-> d]
FetchEv(what, id, answer) == [e |-> "fetch", what |-> what, id |-> id, answer |-> answer]

RECURSIVE CountEv(_, _)
CountEv(tr, kind) ==
  IF tr = <<>> THEN 0
  ELSE (IF Head(tr).e = kind THEN 1 ELSE 0) + CountEv(Tail(tr), kind)

\* ------------------------------------------------------ client handles
\* A client object made by one of the four client libraries; serial tells
\* two objects of the same service apart.
Connection(s, n) == [kind |-> "Connection", svc |-> s, serial |-> n]

\* DryRunSwiftclientConnectionWrapper.dummy: takes anything, does nothing.
dummy == [target |-> "dummy"]

Forward(m) == [target |-> "sw_connector", method |-> m]

\* DryRunSwiftclientConnectionWrapper.__init__: the attribute each method
\* name is bound to.
DryRunForwardAll(sw_connector) ==
  [kind |-> "DryRun", sw_connector |-> sw_connector,
   get_object |-> Forward("get_object"),
   get_account |-> Forward("get_account"),
   get_container |-> Forward("get_container"),
   head_object |-> Forward("head_object"),
   put_object |-> Forward("put_object"),
   put_container |-> Forward("put_container"),
   delete_object |-> Forward("delete_object")]

DryRunSwiftclientConnectionWrapper(sw_connector) ==
  [kind |-> "DryRun", sw_connector |-> sw_connector,
   get_object |-> Forward("get_object"),
   get_account |-> Forward("get_account"),
   get_container |-> Forward("get_container"),
   head_object |-> Forward("head_object"),
   put_object |-> dummy,
   put_container |-> dummy,
   delete_object |-> dummy]

\* `not self.x`: None is false, a client object is true.
Truthy(h) == h # None

\* ------------------------------------------------ ClientManager.create_*
\* The result of a create_* / get_* body run in the current state: the new
\* slots and construction counts, whether it raised, and what it did.
Kept == [slot |-> slot, built |-> built, ok |-> TRUE, ev |-> <<>>]
FailedTwice(s) == [slot |-> slot, built |-> built, ok |-> FALSE,
                   ev |-> <<ConstructEv(s, FALSE), ConstructEv(s, FALSE)>>]
Failed(s) == [slot |-> slot, built |-> built, ok |-> FALSE, ev |-> <<ConstructEv(s, FALSE)>>]
Cached(s, h) == [slot |-> [slot EXCEPT ![s] = h],
                 built |-> [built EXCEPT ![s] = @ + 1],
                 ok |-> TRUE, ev |-> <<ConstructEv(s, TRUE)>>]

create_cinder(ok) ==
  IF ok THEN Cached("cinder", Connection("cinder", built["cinder"] + 1))
  ELSE Failed("cinder")

\* create_swift up to its first assignment: the new connection is put in
\* self.swift as it is.
create_swift(ok) ==
  IF ok THEN Cached("swift", Connection("swift", built["swift"] + 1))
  ELSE Failed("swift")

\* create_swift's second assignment: in a dry run the wrapper around what
\* self.swift holds replaces it.
create_swift_wrapped ==
  IF dry_run THEN DryRunSwiftclientConnectionWrapper(slot["swift"])
  ELSE slot["swift"]

create_glance(ok) ==
  IF ok THEN Cached("glance", Connection("glance", built["glance"] + 1))
  ELSE Failed("glance")

create_nova(ok) ==
  IF ok THEN Cached("nova", Connection("nova", built["nova"] + 1))
  ELSE Failed("nova")

\* --------------------------------------------------- ClientManager.get_*
get_cinder_uncached(ok) == create_cinder(ok)

get_cinder(ok) ==
  IF ~Truthy(slot["cinder"]) THEN create_cinder(ok) ELSE Kept

get_swift_uncached(ok) == create_swift(ok)

get_swift(ok) ==
  IF ~Truthy(slot["swift"]) THEN create_swift(ok) ELSE Kept

get_glance(ok) ==
  IF ~Truthy(slot["glance"]) THEN create_glance(ok) ELSE Kept

get_nova(ok) ==
  IF ~Truthy(slot["nova"]) THEN create_nova(ok) ELSE Kept

\* ------------------------------------------------------------------ Init
\* The callers of one manager; one that is not in a call.
Threads == {"t1", "t2"}
NotCalling == [pc |-> "idle", result |-> None]

Init ==
  /\ dry_run \in BOOLEAN
  /\ slot = [s \in Services |-> None]
  /\ built = [s \in Services |-> 0]
  /\ calls = 0
  /\ op = "__init__"
  /\ pc = "idle"
  /\ outcome = Returned(None)
  /\ snapshot = None
  /\ volume = None
  /\ trace = <<>>
  /\ store \in {[containers |-> {}, objects |-> {}],
                [containers |-> Containers, objects |-> Objects]}
  /\ threads = [t \in Threads |-> NotCalling]
  /\ lock = "unused"
  /\ twin = None

\* A new call can start: the previous one is over and the process lives.
CanCall == pc = "idle" /\ calls < MaxCalls

\* The step of an accessor call: g is the result of its body, s its slot.
Accessor(name, s, g) ==
  /\ CanCall
  /\ calls' = calls + 1
  /\ op' = name
  /\ slot' = g.slot
  /\ built' = g.built
  /\ trace' = g.ev
  /\ outcome' = IF g.ok THEN Returned(g.slot[s]) ELSE Raised
  /\ snapshot' = None
  /\ volume' = None
  /\ UNCHANGED <<threads, lock, twin, dry_run, pc, store>>

\* The step of get_swift or create_swift up to create_swift's first
\* assignment, or to the end where nothing is constructed.
SwiftAccessor(name, g) ==
  LET assigned == g.ok /\ g.ev # <<>>
  IN /\ CanCall
     /\ calls' = calls + 1
     /\ op' = name
     /\ slot' = g.slot
     /\ built' = g.built
     /\ trace' = g.ev
     /\ pc' = IF assigned THEN "create_swift" ELSE pc
     /\ outcome' = IF assigned THEN Running
                   ELSE IF g.ok THEN Returned(g.slot["swift"]) ELSE Raised
     /\ snapshot' = None
     /\ volume' = None
     /\ UNCHANGED <<threads, lock, twin, dry_run, store>>

\* The rest of create_swift, and the return of the get_swift that called
\* it: `if self.dry_run: self.swift = ...; return self.swift`.
Wrap_create_swift ==
  /\ pc = "create_swift"
  /\ slot' = [slot EXCEPT !["swift"] = create_swift_wrapped]
  /\ pc' = "idle"
  /\ outcome' = Returned(slot'["swift"])
  /\ UNCHANGED <<threads, lock, twin, dry_run, built, calls, op, snapshot,
                 volume, trace, store>>

Call_get_cinder == \E ok \in BOOLEAN : Accessor("get_cinder", "cinder", get_cinder(ok))
Call_get_swift == \E ok \in BOOLEAN : SwiftAccessor("get_swift", get_swift(ok))
Call_get_glance == \E ok \in BOOLEAN : Accessor("get_glance", "glance", get_glance(ok))
Call_get_nova == \E ok \in BOOLEAN : Accessor("get_nova", "nova", get_nova(ok))
Call_create_cinder == \E ok \in BOOLEAN : Accessor("create_cinder", "cinder", create_cinder(ok))
Call_create_swift == \E ok \in BOOLEAN : SwiftAccessor("create_swift", create_swift(ok))
Call_create_glance == \E ok \in BOOLEAN : Accessor("create_glance", "glance", create_glance(ok))
Call_create_nova == \E ok \in BOOLEAN : Accessor("create_nova", "nova", create_nova(ok))

\* ------------------------------------------------------- the poll loops
\* `except Exception`: SystemExit, which exit() raises, is not an Exception.
CaughtAll(exc) == TRUE

CaughtNone(exc) == FALSE

ExceptException(exc) == exc = "Exception"

\* The while conditions: `snapshot.status != "available"` and
\* `volume.status != "available"`.
LoopsUntilTerminal(status) == status \notin {"available", "error"}

LoopsWhileCreating(status) == status = "creating"

LoopsWhile(status) == status # "available"

\* What one pass through a try block does: the value left in the local
\* variable, the requests and sleeps made, and the exception that ended it.
Pass(local, ev, exc) == [local |-> local, ev |-> ev, exc |-> exc]

\* The object a status fetch answers: the state of the same resource, as
\* seen by fetch number n of this call.
Fetched(old, status, n) == [id |-> old.id, status |-> status, ver |-> n]

\* provide_snapshot, the try block: fetch, exit on "error", else sleep.
provide_snapshot_try(g, answer) ==
  LET n == CountEv(trace, "fetch") + 1
      get == FetchEv("snapshot", snapshot.id, answer)
  IN IF ~g.ok THEN Pass(snapshot, g.ev, "Exception")
     ELSE IF answer = "raise" THEN Pass(snapshot, g.ev \o <<get>>, "Exception")
     ELSE IF answer = "error"
          THEN Pass(Fetched(snapshot, answer, n), g.ev \o <<get>>, "SystemExit")
     ELSE Pass(Fetched(snapshot, answer, n),
               g.ev \o <<get, SleepEv(PollInterval)>>, "none")

do_copy_volume_try_by_snapshot(g, answer) ==
  LET n == CountEv(trace, "fetch") + 1
      get == FetchEv("volume", snapshot.id, answer)
  IN IF ~g.ok THEN Pass(volume, g.ev, "Exception")
     ELSE IF answer = "raise" THEN Pass(volume, g.ev \o <<get>>, "Exception")
     ELSE Pass(Fetched(volume, answer, n),
               g.ev \o <<get, SleepEv(PollInterval)>>, "none")

\* do_copy_volume, the try block: fetch, then sleep.
do_copy_volume_try(g, answer) ==
  LET n == CountEv(trace, "fetch") + 1
      get == FetchEv("volume", volume.id, answer)
  IN IF ~g.ok THEN Pass(volume, g.ev, "Exception")
     ELSE IF answer = "raise" THEN Pass(volume, g.ev \o <<get>>, "Exception")
     ELSE Pass(Fetched(volume, answer, n),
               g.ev \o <<get, SleepEv(PollInterval)>>, "none")

\* Where a call stands after a pass of its try block and the following
\* test of the while condition.
AfterPass(p, loop) ==
  IF p.exc # "none" /\ ~ExceptException(p.exc)
  THEN IF p.exc = "SystemExit"
       THEN [pc |-> "exited", outcome |-> Exited(ExitStatus)]
       ELSE [pc |-> "idle", outcome |-> Raised]
  ELSE IF LoopsWhile(p.local.status)
       THEN [pc |-> loop, outcome |-> Running]
       ELSE [pc |-> "idle", outcome |-> Returned(p.local)]

\* Where a call stands after the creation request and the first test of the
\* while condition: the status of the creation response is only compared
\* with "available".
AfterCreateChecked(created, loop) ==
  IF created.status = "error"
  THEN [pc |-> "exited", outcome |-> Exited(ExitStatus)]
  ELSE IF LoopsWhile(created.status)
       THEN [pc |-> loop, outcome |-> Running]
       ELSE [pc |-> "idle", outcome |-> Returned(created)]

AfterCreate(created, loop) ==
  IF LoopsWhile(created.status)
  THEN [pc |-> loop, outcome |-> Running]
  ELSE [pc |-> "idle", outcome |-> Returned(created)]

\* provide_snapshot up to the first test of the while condition.
provide_snapshot(ok, vol, name, st) ==
    LET g == get_cinder(ok)
        created == [id |-> "snap-of-" \o vol, status |-> st, ver |-> 0]
        req == [e |-> "snapshot_create", volume_id |-> vol,
                display_name |-> name, force |-> TRUE, answer |-> created]
    IN /\ CanCall
       /\ calls' = calls + 1
       /\ op' = "provide_snapshot"
       /\ slot' = g.slot
       /\ built' = g.built
       /\ volume' = None
       /\ IF ~g.ok
          THEN /\ trace' = g.ev
               /\ snapshot' = None
               /\ pc' = "idle"
               /\ outcome' = Raised
          ELSE /\ trace' = g.ev \o <<req>>
               /\ snapshot' = created
               /\ pc' = AfterCreate(created, "provide_snapshot").pc
               /\ outcome' = AfterCreate(created, "provide_snapshot").outcome
       /\ UNCHANGED <<threads, lock, twin, dry_run, store>>

Call_provide_snapshot ==
  \E ok \in BOOLEAN, vol \in VolumeIds, name \in SnapshotNames, st \in Statuses :
    provide_snapshot(ok, vol, name, st)

\* The fetches after the recorded ones are numbered MaxFetch + 1 and
\* MaxFetch + 2 in turn.
Later(n) == IF n = MaxFetch + 1 THEN MaxFetch + 2 ELSE MaxFetch + 1

\* One iteration of provide_snapshot's while loop, the fetch answering
\* `answer`.  The loop has no bound of its own; the trace records the first
\* MaxFetch iterations, a later one leaves it as it is.
provide_snapshot_iteration(answer, recorded) ==
  \E ok \in BOOLEAN :
    LET g == get_cinder(ok)
        try == provide_snapshot_try(g, answer)
        p == IF recorded \/ try.exc = "Exception" THEN try
             ELSE [try EXCEPT !.local.ver = Later(snapshot.ver)]
        a == AfterPass(p, "provide_snapshot")
    IN /\ pc = "provide_snapshot"
       /\ recorded <=> CountEv(trace, "fetch") < MaxFetch
       /\ slot' = g.slot
       /\ built' = g.built
       /\ snapshot' = p.local
       /\ trace' = IF recorded THEN trace \o p.ev ELSE trace
       /\ pc' = a.pc
       /\ outcome' = a.outcome
       /\ UNCHANGED <<threads, lock, twin, dry_run, calls, op, volume, store>>

Poll_provide_snapshot ==
  \E answer \in FetchAnswers : provide_snapshot_iteration(answer, TRUE)

Poll_provide_snapshot_unrecorded ==
  \E answer \in FetchAnswers : provide_snapshot_iteration(answer, FALSE)

\* An iteration whose fetch answers "available" or "error".
TerminalAnswer ==
  \E answer \in {"available", "error"}, recorded \in BOOLEAN :
    provide_snapshot_iteration(answer, recorded)

\* do_copy_volume up to the first test of the while condition.
do_copy_volume(ok, snap, st) ==
    LET g == get_cinder(ok)
        created == [id |-> "vol-of-" \o snap.id, status |-> st, ver |-> 0]
        req == [e |-> "volume_create", size |-> snap.size,
                snapshot_id |-> snap.id, answer |-> created]
    IN /\ CanCall
       /\ calls' = calls + 1
       /\ op' = "do_copy_volume"
       /\ slot' = g.slot
       /\ built' = g.built
       /\ snapshot' = snap
       /\ IF ~g.ok
          THEN /\ trace' = g.ev
               /\ volume' = None
               /\ pc' = "idle"
               /\ outcome' = Raised
          ELSE /\ trace' = g.ev \o <<req>>
               /\ volume' = created
               /\ pc' = AfterCreate(created, "do_copy_volume").pc
               /\ outcome' = AfterCreate(created, "do_copy_volume").outcome
       /\ UNCHANGED <<threads, lock, twin, dry_run, store>>

Call_do_copy_volume ==
  \E ok \in BOOLEAN, snap \in SnapshotArgs, st \in Statuses :
    do_copy_volume(ok, snap, st)

\* One iteration of do_copy_volume's while loop, the fetch answering
\* `answer`.
do_copy_volume_iteration(answer) ==
  \E ok \in BOOLEAN :
    LET g == get_cinder(ok)
        p == do_copy_volume_try(g, answer)
        a == AfterPass(p, "do_copy_volume")
    IN /\ pc = "do_copy_volume"
       /\ CountEv(trace, "fetch") < MaxFetch
       /\ slot' = g.slot
       /\ built' = g.built
       /\ volume' = p.local
       /\ trace' = trace \o p.ev
       /\ pc' = a.pc
       /\ outcome' = a.outcome
       /\ UNCHANGED <<threads, lock, twin, dry_run, calls, op, snapshot, store>>

Poll_do_copy_volume ==
  \E answer \in FetchAnswers : do_copy_volume_iteration(answer)

\* ------------------------------------------- the other cinder / glance calls
\* The step of a call that gets one client, makes one request and returns.
OneRequest(name, g, req, result) ==
  /\ CanCall
  /\ calls' = calls + 1
  /\ op' = name
  /\ slot' = g.slot
  /\ built' = g.built
  /\ trace' = IF g.ok THEN g.ev \o <<req>> ELSE g.ev
  /\ outcome' = IF g.ok THEN Returned(result) ELSE Raised
  /\ snapshot' = None
  /\ volume' = None
  /\ UNCHANGED <<threads, lock, twin, dry_run, pc, store>>

\* make_glance_image's request, with what the service answers to it.
upload_to_image_unforced(copy_volume, image_volume_name, answer) ==
  [e |-> "upload_to_image", volume |-> copy_volume, force |-> FALSE,
   image_name |-> image_volume_name,
   container_format |-> "bare", disk_format |-> "raw", answer |-> answer]

upload_to_image(copy_volume, image_volume_name, answer) ==
  [e |-> "upload_to_image", volume |-> copy_volume, force |-> TRUE,
   image_name |-> image_volume_name,
   container_format |-> "bare", disk_format |-> "raw", answer |-> answer]

Call_make_glance_image_via_glance ==
  \E ok \in BOOLEAN, image_volume_name \in ImageNames, copy_volume \in VolumeIds,
     answer \in UploadAnswers :
    OneRequest("make_glance_image", get_glance(ok),
               upload_to_image(copy_volume, image_volume_name, answer), answer)

make_glance_image(ok, image_volume_name, copy_volume, answer) ==
  OneRequest("make_glance_image", get_cinder(ok),
             upload_to_image(copy_volume, image_volume_name, answer), answer)

Call_make_glance_image ==
  \E ok \in BOOLEAN, image_volume_name \in ImageNames, copy_volume \in VolumeIds,
     answer \in UploadAnswers :
    make_glance_image(ok, image_volume_name, copy_volume, answer)

\* A clean_snapshot that leaves the snapshot alone in a dry run.
clean_snapshot_dry_run(ok, snap) ==
  LET g == get_cinder(ok)
  IN /\ CanCall
     /\ calls' = calls + 1
     /\ op' = "clean_snapshot"
     /\ slot' = g.slot
     /\ built' = g.built
     /\ trace' = IF g.ok /\ ~dry_run
                 THEN g.ev \o <<[e |-> "snapshot_delete", snapshot |-> snap.id]>>
                 ELSE g.ev
     /\ outcome' = IF g.ok THEN Returned(None) ELSE Raised
     /\ snapshot' = None
     /\ volume' = None
     /\ UNCHANGED <<threads, lock, twin, dry_run, pc, store>>

clean_snapshot(ok, snap) ==
  OneRequest("clean_snapshot", get_cinder(ok),
             [e |-> "snapshot_delete", snapshot |-> snap.id], None)

Call_clean_snapshot ==
  \E ok \in BOOLEAN, snap \in SnapshotArgs : clean_snapshot(ok, snap)

\* utils.ReSizeStream: a stream of known length, to be read in chunks of
\* chunk_size.
ReSizeStream(stream, length, chunk_size) ==
  [kind |-> "ReSizeStream", stream |-> stream, length |-> length,
   chunk_size |-> chunk_size]

Call_download_image ==
  \E ok \in BOOLEAN, image \in Images, length \in StreamLengths :
    OneRequest("download_image", get_glance(ok),
               [e |-> "image_data", image |-> image, length |-> length],
               ReSizeStream(image, length, ChunkSize))

\* --------------------------------------------------- reading the adapter
IsChunk(ev) == ev.e = "chunk"
ChunksOf(tr) == SelectSeq(tr, IsChunk)

RECURSIVE Transmitted(_)
Transmitted(tr) ==
  IF tr = <<>> THEN 0
  ELSE (IF IsChunk(Head(tr)) THEN Head(tr).size ELSE 0) + Transmitted(Tail(tr))

Min(a, b) == IF a <= b THEN a ELSE b

\* The caller takes the next chunk of the adapter it holds: the next
\* chunk_size bytes of the stream, or what is left of it, or the end.
ReSizeStream_next ==
  LET adapter == outcome.value
      sent == Transmitted(trace)
  IN /\ pc = "idle"
     /\ op \in {"download_image", "ReSizeStream"}
     /\ outcome.kind = "returned"
     /\ CountEv(trace, "stop") = 0
     /\ trace' = IF sent < adapter.length
                 THEN Append(trace, [e |-> "chunk", start |-> sent,
                                     size |-> Min(adapter.chunk_size,
                                                  adapter.length - sent)])
                 ELSE Append(trace, [e |-> "stop"])
     /\ UNCHANGED <<threads, lock, twin, dry_run, slot, built, calls, op, pc, outcome, snapshot,
                    volume, store>>

\* A manager that downloads images, and adapters made directly for small
\* chunk sizes and lengths.
ChunkInit ==
  \/ Init
  \/ /\ dry_run = FALSE
     /\ slot = [s \in Services |-> None]
     /\ built = [s \in Services |-> 0]
     /\ calls = 0
     /\ op = "ReSizeStream"
     /\ pc = "idle"
     /\ \E c \in 1..MaxChunk, L \in 0..MaxLen :
          outcome = Returned(ReSizeStream("bytes", L, c))
     /\ snapshot = None
     /\ volume = None
     /\ trace = <<>>
     /\ store = [containers |-> {}, objects |-> {}]
     /\ threads = [t \in Threads |-> NotCalling]
     /\ lock = "unused"
     /\ twin = None

ChunkNext ==
  \/ Call_download_image
  \/ ReSizeStream_next

\* ------------------------------------------------- calls on the swift client
\* What the swift service answers to a read, and what a write leaves behind.
ConnResult(m, arg, st) ==
  CASE m \in {"get_object", "head_object"} -> [method |-> m, found |-> arg \in st.objects]
    [] m = "get_container" -> [method |-> m, listing |-> st.objects]
    [] m = "get_account" -> [method |-> m, listing |-> st.containers]
    [] OTHER -> [method |-> m, done |-> TRUE]

ConnStore(m, arg, st) ==
  CASE m = "put_object" -> [st EXCEPT !.objects = @ \cup {arg}]
    [] m = "delete_object" -> [st EXCEPT !.objects = @ \ {arg}]
    [] m = "put_container" -> [st EXCEPT !.containers = @ \cup {arg}]
    [] OTHER -> st

SwiftArgs(m) == IF m \in {"put_container", "get_container"} THEN Containers ELSE Objects

\* The attribute m of the cached swift client: the wrapper's binding, or the
\* connection's own method.
Attribute(h, m) == IF h.kind = "DryRun" THEN h[m] ELSE Forward(m)

\* The caller invokes method m of the client that get_swift returns.
Call_swift ==
  \E m \in SwiftMethods :
    \E arg \in SwiftArgs(m) :
      LET b == Attribute(slot["swift"], m)
      IN /\ CanCall
         /\ Truthy(slot["swift"])
         /\ calls' = calls + 1
         /\ op' = m
         /\ snapshot' = None
         /\ volume' = None
         /\ IF b.target = "dummy"
            THEN /\ outcome' = Returned(None)
                 /\ trace' = <<>>
                 /\ UNCHANGED store
            ELSE /\ outcome' = Returned(ConnResult(b.method, arg, store))
                 /\ trace' = <<[e |-> "swift", method |-> b.method, arg |-> arg]>>
                 /\ store' = ConnStore(b.method, arg, store)
         /\ UNCHANGED <<threads, lock, twin, dry_run, slot, built, pc>>

Next ==
  \/ Call_make_glance_image
  \/ Call_clean_snapshot
  \/ Call_download_image
  \/ Call_swift
  \/ Call_provide_snapshot
  \/ Poll_provide_snapshot
  \/ Call_do_copy_volume
  \/ Poll_do_copy_volume
  \/ Call_get_cinder
  \/ Call_get_swift
  \/ Call_get_glance
  \/ Call_get_nova
  \/ Call_create_cinder
  \/ Call_create_swift
  \/ Wrap_create_swift
  \/ Call_create_glance
  \/ Call_create_nova

Spec == Init /\ [][Next]_vars

\* provide_snapshot with its loop running on past the recorded iterations,
\* where the service ends up answering "available" or "error".
LiveNext ==
  \/ Call_provide_snapshot
  \/ Poll_provide_snapshot
  \/ Poll_provide_snapshot_unrecorded

LiveSpec == Init /\ [][LiveNext]_vars /\ WF_vars(TerminalAnswer)

ChunkSpec == ChunkInit /\ [][ChunkNext]_vars

\* ------------------------------------------- get_cinder, called concurrently
\* Two callers of get_cinder on one manager, a step for each of its lines.
\* The manager has no lock of its own; where one is used around the call, it
\* is taken before line 44 and given back when the call ends.
RaceInit ==
  /\ dry_run \in BOOLEAN
  /\ slot = [s \in Services |-> None]
  /\ built = [s \in Services |-> 0]
  /\ calls = 0
  /\ op = "__init__"
  /\ pc = "idle"
  /\ outcome = Returned(None)
  /\ snapshot = None
  /\ volume = None
  /\ trace = <<>>
  /\ store \in {[containers |-> {}, objects |-> {}],
                [containers |-> Containers, objects |-> Objects]}
  /\ threads = [t \in Threads |-> NotCalling]
  /\ lock \in {"unused", "free"}
  /\ twin = None

At(t, where, result) ==
  [threads EXCEPT ![t] = [pc |-> where, result |-> result]]

Released == IF lock = "unused" THEN "unused" ELSE "free"

get_cinder_enter(t) ==
  /\ threads[t].pc = "idle"
  /\ calls < MaxCalls
  /\ lock \in {"unused", "free"}
  /\ lock' = IF lock = "unused" THEN "unused" ELSE t
  /\ calls' = calls + 1
  /\ op' = "get_cinder"
  /\ threads' = At(t, "test", None)
  /\ UNCHANGED <<dry_run, slot, built, pc, outcome, snapshot, volume, trace,
                 store, twin>>

\* A test that finds the slot empty whatever it holds.
get_cinder_test_always(t) ==
  /\ threads[t].pc = "test"
  /\ threads' = At(t, "create", None)
  /\ UNCHANGED <<dry_run, slot, built, calls, op, pc, outcome, snapshot,
                 volume, trace, store, lock, twin>>

\* `if not self.cinder:`
get_cinder_test(t) ==
  /\ threads[t].pc = "test"
  /\ threads' = At(t, IF ~Truthy(slot["cinder"]) THEN "create" ELSE "return",
                   None)
  /\ UNCHANGED <<dry_run, slot, built, calls, op, pc, outcome, snapshot,
                 volume, trace, store, lock, twin>>

\* `self.create_cinder()`
get_cinder_create(t) ==
  \E ok \in BOOLEAN :
    LET g == create_cinder(ok)
    IN /\ threads[t].pc = "create"
       /\ slot' = g.slot
       /\ built' = g.built
       /\ trace' = trace \o g.ev
       /\ threads' = IF g.ok THEN At(t, "return", None)
                             ELSE At(t, "idle", Raised)
       /\ lock' = IF g.ok THEN lock ELSE Released
       /\ UNCHANGED <<dry_run, calls, op, pc, outcome, snapshot, volume,
                      store, twin>>

\* `return self.cinder`
get_cinder_return(t) ==
  /\ threads[t].pc = "return"
  /\ threads' = At(t, "idle", Returned(slot["cinder"]))
  /\ lock' = Released
  /\ UNCHANGED <<dry_run, slot, built, calls, op, pc, outcome, snapshot,
                 volume, trace, store, twin>>

RaceNext ==
  \E t \in Threads :
    \/ get_cinder_enter(t)
    \/ get_cinder_test(t)
    \/ get_cinder_create(t)
    \/ get_cinder_return(t)

RaceSpec == RaceInit /\ [][RaceNext]_vars

\* ------------------------------------- two managers, one of them in dry run
\* Two managers built alike but for the dry_run flag are given the same
\* calls with the same arguments, and their clients the same answers.  One
\* manager is at work in the variables while the other waits in `twin`:
\* a call or an answer is chosen, the manager at work takes it, the two
\* change places, and the other takes the same.
Here ==
  [dry_run |-> dry_run, slot |-> slot, built |-> built, calls |-> calls,
   op |-> op, pc |-> pc, outcome |-> outcome, snapshot |-> snapshot,
   volume |-> volume, trace |-> trace, store |-> store]

PairInit ==
  /\ dry_run \in BOOLEAN
  /\ slot = [s \in Services |-> None]
  /\ built = [s \in Services |-> 0]
  /\ calls = 0
  /\ op = "__init__"
  /\ pc = "idle"
  /\ outcome = Returned(None)
  /\ snapshot = None
  /\ volume = None
  /\ trace = <<>>
  /\ store = [containers |-> {}, objects |-> {}]
  /\ threads = [t \in Threads |-> NotCalling]
  /\ lock = "unused"
  /\ twin = [st |-> [dry_run |-> ~dry_run,
                     slot |-> [s \in Services |-> None],
                     built |-> [s \in Services |-> 0],
                     calls |-> 0, op |-> "__init__", pc |-> "idle",
                     outcome |-> Returned(None), snapshot |-> None,
                     volume |-> None, trace |-> <<>>,
                     store |-> [containers |-> {}, objects |-> {}]],
             input |-> None, fresh |-> FALSE]

\* Manager a has taken more calls and answers than manager b, or has
\* finished the create_swift that b is in.
Ahead(a, b) ==
  \/ a.calls > b.calls
  \/ a.calls = b.calls /\ CountEv(a.trace, "fetch") > CountEv(b.trace, "fetch")
  \/ /\ a.calls = b.calls
     /\ CountEv(a.trace, "fetch") = CountEv(b.trace, "fetch")
     /\ a.pc # "create_swift"
     /\ b.pc = "create_swift"

InStep == ~Ahead(Here, twin.st) /\ ~Ahead(twin.st, Here)

\* The calls with their arguments and what the services answer in them,
\* and the answers to a status fetch.
PairInputs ==
  [call : {"provide_snapshot"}, ok : BOOLEAN, vol : VolumeIds,
   name : SnapshotNames, st : Statuses]
  \cup [call : {"do_copy_volume"}, ok : BOOLEAN, snap : SnapshotArgs,
        st : Statuses]
  \cup [call : {"make_glance_image"}, ok : BOOLEAN,
        image_volume_name : ImageNames, copy_volume : VolumeIds,
        answer : UploadAnswers]
  \cup [call : {"clean_snapshot"}, ok : BOOLEAN, snap : SnapshotArgs]
  \cup [call : {"get_swift", "create_swift"}, ok : BOOLEAN]
  \cup [call : {"fetch"}, answer : FetchAnswers]
  \cup [call : {"go on"}]

PairChoose ==
  /\ InStep
  /\ ~twin.fresh
  /\ \E in \in PairInputs :
       /\ CASE in.call = "fetch" ->
                 /\ pc \in {"provide_snapshot", "do_copy_volume"}
                 /\ CountEv(trace, "fetch") < MaxFetch
            [] in.call = "go on" -> pc = "create_swift"
            [] OTHER -> CanCall
       /\ twin' = [twin EXCEPT !.input = in, !.fresh = TRUE]
  /\ UNCHANGED <<dry_run, slot, built, calls, op, pc, outcome, snapshot,
                 volume, trace, store, threads, lock>>

PairStep ==
  /\ (InStep /\ twin.fresh) \/ Ahead(twin.st, Here)
  /\ LET in == twin.input
     IN \/ /\ in.call = "provide_snapshot"
           /\ provide_snapshot(in.ok, in.vol, in.name, in.st)
        \/ /\ in.call = "do_copy_volume"
           /\ do_copy_volume(in.ok, in.snap, in.st)
        \/ /\ in.call = "make_glance_image"
           /\ make_glance_image(in.ok, in.image_volume_name, in.copy_volume,
                                in.answer)
        \/ /\ in.call = "clean_snapshot"
           /\ clean_snapshot(in.ok, in.snap)
        \/ /\ in.call = "get_swift"
           /\ SwiftAccessor("get_swift", get_swift(in.ok))
        \/ /\ in.call = "create_swift"
           /\ SwiftAccessor("create_swift", create_swift(in.ok))
        \/ /\ in.call = "go on"
           /\ Wrap_create_swift
        \/ /\ in.call = "fetch"
           /\ pc = "provide_snapshot"
           /\ provide_snapshot_iteration(in.answer, TRUE)
        \/ /\ in.call = "fetch"
           /\ pc = "do_copy_volume"
           /\ do_copy_volume_iteration(in.answer)

PairSwap ==
  /\ Ahead(Here, twin.st)
  /\ dry_run' = twin.st.dry_run
  /\ slot' = twin.st.slot
  /\ built' = twin.st.built
  /\ calls' = twin.st.calls
  /\ op' = twin.st.op
  /\ pc' = twin.st.pc
  /\ outcome' = twin.st.outcome
  /\ snapshot' = twin.st.snapshot
  /\ volume' = twin.st.volume
  /\ trace' = twin.st.trace
  /\ store' = twin.st.store
  /\ twin' = [twin EXCEPT !.st = Here, !.fresh = FALSE]
  /\ UNCHANGED <<threads, lock>>

PairNext == PairChoose \/ PairStep \/ PairSwap

PairSpec == PairInit /\ [][PairNext]_vars

\* ------------------------------------------------- reading the trace
IsFetch(ev) == ev.e = "fetch"
IsAnswered(ev) == ev.e = "fetch" /\ ev.answer # "raise"
IsCreate(ev) == ev.e \in {"snapshot_create", "volume_create"}

\* The fetch attempts of the current call, in order, and those that
\* returned a status.
FetchesOf(tr) == SelectSeq(tr, IsFetch)
AnsweredOf(tr) == SelectSeq(tr, IsAnswered)

InPoll == op \in {"provide_snapshot", "do_copy_volume"}

\* The object the current poll call holds after what the trace records:
\* the creation response, or the state answered by the last fetch that
\* did not raise.
LatestState(tr) ==
  LET made == SelectSeq(tr, IsCreate)[1].answer
      f == FetchesOf(tr)
      good == {i \in 1..Len(f) : f[i].answer # "raise"}
  IN IF good = {} THEN made
     ELSE LET last == CHOOSE i \in good : \A j \in good : j <= i
          IN [id |-> made.id, status |-> f[last].answer, ver |-> last]

\* The events the step just taken added.
NewEvents ==
  IF calls' # calls THEN trace'
  ELSE SubSeq(trace', Len(trace) + 1, Len(trace'))

\* ------------------------------------------------------------------ C1
\* C1: when the fetches of provide_snapshot answer k-1 non-terminal
\* statuses and then "available", and none raises, provide_snapshot has
\* returned after these k fetches and has slept exactly k-1 times.
C1_SleepsOneLessThanFetches ==
  LET a == FetchesOf(trace)
      k == Len(a)
  IN (/\ op = "provide_snapshot"
      /\ k >= 1
      /\ a[k].answer = "available"
      /\ \A i \in 1..(k - 1) : a[i].answer \notin {"available", "error", "raise"})
     => /\ outcome.kind = "returned"
        /\ CountEv(trace, "fetch") = k
        /\ CountEv(trace, "sleep") = k - 1

\* ------------------------------------------------------------------ C2
\* C2: in provide_snapshot a fetch that answers "error" is the last thing
\* the call does: the process has exited with status 1 right after it, no
\* snapshot is returned, and nothing runs after the exit.
C2_ErrorFetchExits ==
  /\ [](\A i \in 1..Len(trace) :
          (op = "provide_snapshot" /\ IsFetch(trace[i]) /\ trace[i].answer = "error")
          => /\ i = Len(trace)
             /\ pc = "exited"
             /\ outcome = Exited(1))
  /\ [][pc # "exited"]_vars

C2_Witness ==
  /\ op = "provide_snapshot"
  /\ outcome = Exited(1)
  /\ CountEv(trace, "fetch") = 3
  /\ CountEv(trace, "sleep") = 1

\* ------------------------------------------------------------------ C3
\* C3: in both poll loops a fetch that raises is never the end of the
\* call: the call has not raised, it is either still looping or has made
\* a later fetch, and once a later fetch answers "available" the call has
\* returned the object of that fetch.
C3_FetchErrorsAreRetried ==
  InPoll =>
    \A i \in 1..Len(trace) :
      (IsFetch(trace[i]) /\ trace[i].answer = "raise")
      => /\ outcome.kind # "raised"
         /\ \/ pc = op /\ outcome = Running
            \/ \E j \in (i + 1)..Len(trace) : IsFetch(trace[j])
         /\ \A j \in (i + 1)..Len(trace) :
              (IsFetch(trace[j]) /\ trace[j].answer = "available")
              => /\ outcome.kind = "returned"
                 /\ outcome.value.status = "available"
                 /\ outcome.value = LatestState(trace)

C3_Witness ==
  /\ op = "provide_snapshot"
  /\ outcome.kind = "returned"
  /\ Len(FetchesOf(trace)) = 3
  /\ FetchesOf(trace)[1].answer = "raise"
  /\ FetchesOf(trace)[2].answer = "raise"

\* ------------------------------------------------------------------ C4
\* C4: in both poll loops, between a fetch attempt and the next one there
\* is exactly one sleep of 5 units, whether the earlier attempt answered
\* or raised.
C4_OneSleepBetweenFetches ==
  InPoll =>
    \A i \in 1..Len(trace) :
      (IsFetch(trace[i]) /\ \E j \in (i + 1)..Len(trace) : IsFetch(trace[j]))
      => /\ trace[i + 1] = SleepEv(5)
         /\ IsFetch(trace[i + 2])

\* ------------------------------------------------------------------ C5
\* C5: once the slot of a service holds a client (and the create_swift that
\* put it there is over), a call of its get_* accessor returns that same
\* client, and every step of an operation
\* that uses the accessor leaves the slot as it is and constructs nothing.
AccessorUsers(s) ==
  CASE s = "cinder" -> {"get_cinder", "provide_snapshot", "do_copy_volume",
                        "make_glance_image", "clean_snapshot"}
    [] s = "swift" -> {"get_swift"}
    [] s = "glance" -> {"get_glance", "download_image"}
    [] s = "nova" -> {"get_nova"}

C5_AccessorsAreMemoised ==
  [][\A s \in Services :
       (Truthy(slot[s]) /\ pc # "create_swift" /\ op' \in AccessorUsers(s))
       => /\ slot'[s] = slot[s]
          /\ built' = built
          /\ CountEv(NewEvents, "construct") = 0
          /\ (op' = "get_" \o s => outcome' = Returned(slot[s]))]_vars

C5_Witness ==
  /\ op = "get_glance"
  /\ calls = 3
  /\ built["glance"] = 1
  /\ trace = <<>>
  /\ outcome = Returned(slot["glance"])

\* ------------------------------------------------------------------ C6
\* C6 as stated: over any sequence of calls, create_* included, the
\* client of each service is constructed at most once.
C6_ConstructedAtMostOnce == \A s \in Services : built[s] <= 1

\* The connection behind a handle: the wrapper's self.sw_connector, or the
\* handle itself.
sw_connector(h) == IF h.kind = "DryRun" THEN h.sw_connector ELSE h

\* C6 amended: the get_* accessors and the orchestration operations
\* construct the client of a service at most once: a step other than a
\* direct create_* call constructs one only if none was constructed before;
\* every create_* call that returns has constructed a new one and put it
\* in the slot.
C6_AtMostOnceBesidesCreate ==
  [][\A s \in Services :
       /\ built'[s] \in {built[s], built[s] + 1}
       /\ (built'[s] # built[s] /\ op' # "create_" \o s) => built[s] = 0
       /\ (op' = "create_" \o s /\ outcome'.kind = "returned")
            => /\ CountEv(trace', "construct") = 1
               /\ built'[s] >= 1
               /\ sw_connector(slot'[s]) = Connection(s, built'[s])
               /\ outcome'.value = slot'[s]]_vars

C6_Witness ==
  /\ calls = 3
  /\ op = "do_copy_volume"
  /\ outcome.kind = "returned"
  /\ built = [s \in Services |-> IF s = "cinder" THEN 1 ELSE 0]
  /\ CountEv(trace, "construct") = 0

\* ------------------------------------------------------------------ C7
\* C7: a call of put_object, put_container or delete_object on the dry-run
\* wrapper makes no call of the wrapped connection, returns nothing and
\* leaves the store as it is; a call of a read method makes that one call
\* of the wrapped connection and returns the connection's answer.
C7_DryRunInterception ==
  [][(Truthy(slot["swift"]) /\ slot["swift"].kind = "DryRun" /\ op' \in SwiftMethods)
     => /\ store' = store
        /\ IF op' \in WriteMethods
           THEN /\ trace' = <<>>
                /\ outcome' = Returned(None)
           ELSE /\ Len(trace') = 1
                /\ trace'[1].method = op'
                /\ outcome' = Returned(ConnResult(op', trace'[1].arg, store))]_vars

C7_Witness ==
  /\ slot["swift"].kind = "DryRun"
  /\ op = "delete_object"
  /\ outcome = Returned(None)
  /\ "o1" \in store.objects
  /\ calls = 3

\* ------------------------------------------------------------------ C8
\* C8: with dry_run set, the new connection is wrapped before it is put in
\* the swift slot: the slot is empty or holds a wrapper around the
\* connection constructed last, never a bare connection and never a
\* wrapper around a wrapper; without dry_run it never holds a wrapper; and
\* get_swift and create_swift return what the slot holds.
C8_DryRunWrapsOnce ==
  /\ Truthy(slot["swift"]) =>
       IF dry_run
       THEN /\ slot["swift"].kind = "DryRun"
            /\ slot["swift"].sw_connector = Connection("swift", built["swift"])
       ELSE slot["swift"] = Connection("swift", built["swift"])
  /\ (op \in {"get_swift", "create_swift"} /\ outcome.kind = "returned")
       => /\ outcome.value = slot["swift"]
          /\ outcome.value.kind = IF dry_run THEN "DryRun" ELSE "Connection"

\* ------------------------------------------------------------------ C9
\* C9: while every fetch of do_copy_volume that answered has answered
\* "error", do_copy_volume has neither returned nor raised nor exited: it
\* is still in its loop, about to fetch again; provide_snapshot has exited
\* at its first such answer.
C9_CopyLoopsOnError ==
  LET good == AnsweredOf(trace)
  IN (/\ Len(good) >= 1
      /\ \A i \in 1..Len(good) : good[i].answer = "error")
     => /\ op = "do_copy_volume" => (pc = "do_copy_volume" /\ outcome = Running)
        /\ op = "provide_snapshot" => (Len(good) = 1 /\ outcome = Exited(ExitStatus))

C9_Witness ==
  /\ op = "do_copy_volume"
  /\ outcome = Running
  /\ Len(AnsweredOf(trace)) = 3
  /\ \A i \in 1..3 : AnsweredOf(trace)[i].answer = "error"

\* ------------------------------------------------------------------ C10
\* C10: what provide_snapshot or do_copy_volume returns has status
\* "available" and is the state answered by the last fetch that did not
\* raise, or the creation response when no fetch was made.
C10_ReturnsAvailable ==
  (InPoll /\ outcome.kind = "returned")
  => /\ outcome.value.status = "available"
     /\ outcome.value = LatestState(trace)
     /\ (Len(FetchesOf(trace)) = 0 => outcome.value.ver = 0)

C10_Witness ==
  /\ op = "do_copy_volume"
  /\ outcome.kind = "returned"
  /\ outcome.value.ver = 3
  /\ FetchesOf(trace)[2].answer = "raise"
  /\ FetchesOf(trace)[1].answer = "error"

\* ------------------------------------------------------------------ C11
\* The requests and sleeps of a call, without the constructions.
IsRequest(ev) == ev.e # "construct"
RequestsOf(tr) == SelectSeq(tr, IsRequest)

\* C11: a client construction that raises is the only thing its call did:
\* the call has raised to the caller, nothing was constructed or requested
\* before or after it, and the slot of a lazy accessor is still empty; a
\* poll loop never constructs, so its handler never sees such an error.
C11_ConstructionErrorsPropagate ==
  /\ \A i \in 1..Len(trace) :
       (trace[i].e = "construct" /\ ~trace[i].ok)
       => /\ trace = <<ConstructEv(trace[i].svc, FALSE)>>
          /\ outcome = Raised
          /\ pc = "idle"
          /\ (op # "create_" \o trace[i].svc => slot[trace[i].svc] = None)
  /\ CountEv(trace, "construct") <= 1
  /\ InPoll => \A i \in 2..Len(trace) : trace[i].e # "construct"
  /\ (InPoll /\ pc = op) => Truthy(slot["cinder"])

C11_Witness ==
  /\ op = "do_copy_volume"
  /\ calls = 2
  /\ outcome = Raised
  /\ trace = <<ConstructEv("cinder", FALSE)>>
  /\ slot["cinder"] = None

\* ------------------------------------------------------------------ C12
\* C12: do_copy_volume makes exactly one volume creation request, with the
\* size and the id of its snapshot, before any fetch, and every fetch asks
\* for the volume that request created.
C12_OneVolumeRequest ==
  (op = "do_copy_volume" /\ outcome # Raised)
  => LET made == SelectSeq(trace, IsCreate)
     IN /\ Len(made) = 1
        /\ made[1].e = "volume_create"
        /\ made[1].size = snapshot.size
        /\ made[1].snapshot_id = snapshot.id
        /\ volume.id = made[1].answer.id
        /\ \A i \in 1..Len(trace) :
             IsFetch(trace[i])
             => /\ trace[i].what = "volume"
                /\ trace[i].id = made[1].answer.id
                /\ \E j \in 1..(i - 1) : IsCreate(trace[j])

C12_Witness ==
  /\ op = "do_copy_volume"
  /\ snapshot = [id |-> "s2", size |-> 2]
  /\ Len(FetchesOf(trace)) = 3
  /\ FetchesOf(trace)[2].answer = "raise"
  /\ outcome.kind = "returned"

\* ------------------------------------------------------------------ C13
\* C13: make_glance_image makes one request, an upload of the volume with
\* container_format "bare", disk_format "raw" and force set, makes no
\* fetch and no sleep, and returns what the request answered.
C13_OneUploadRequest ==
  (op = "make_glance_image" /\ outcome.kind = "returned")
  => LET reqs == RequestsOf(trace)
     IN /\ Len(reqs) = 1
        /\ reqs[1].e = "upload_to_image"
        /\ reqs[1].container_format = "bare"
        /\ reqs[1].disk_format = "raw"
        /\ reqs[1].force = TRUE
        /\ outcome.value = reqs[1].answer
        /\ CountEv(trace, "fetch") = 0
        /\ CountEv(trace, "sleep") = 0
        /\ pc = "idle"

C13_Witness ==
  /\ op = "make_glance_image"
  /\ calls = 2
  /\ outcome = Returned("uploading")
  /\ Len(trace) = 1

\* ------------------------------------------------------------------ C17
\* C17: provide_snapshot compares the creation response with "available"
\* only: an "available" response is returned with no fetch and no sleep;
\* after an "error" response the call goes on until a fetch answers, exits
\* only when a fetch answers "error", and returns when the first answer is
\* "available".
C17_CreationStatusNotChecked ==
  (op = "provide_snapshot" /\ outcome # Raised)
  => LET c == SelectSeq(trace, IsCreate)[1].answer
         good == AnsweredOf(trace)
     IN /\ c.status = "available"
             => /\ outcome = Returned(c)
                /\ CountEv(trace, "fetch") = 0
                /\ CountEv(trace, "sleep") = 0
        /\ (c.status = "error" /\ Len(good) = 0)
             => (outcome = Running /\ pc = "provide_snapshot")
        /\ (c.status = "error" /\ Len(good) >= 1 /\ good[1].answer = "available")
             => (outcome.kind = "returned" /\ outcome.value.status = "available")
        /\ outcome.kind = "exited"
             => (Len(good) >= 1 /\ good[Len(good)].answer = "error")

C17_Witness ==
  /\ op = "provide_snapshot"
  /\ Len(FetchesOf(trace)) = 2
  /\ SelectSeq(trace, IsCreate)[1].answer.status = "error"
  /\ FetchesOf(trace)[1].answer = "raise"
  /\ outcome.kind = "returned"

\* ------------------------------------------------------------------ C18
CinderOps == {"provide_snapshot", "do_copy_volume", "make_glance_image",
              "clean_snapshot"}

\* The step just taken touched no client but that of service s.
TouchesOnly(s) ==
  /\ \A o \in Services \ {s} : slot'[o] = slot[o] /\ built'[o] = built[o]
  /\ \A i \in 1..Len(NewEvents) :
       /\ NewEvents[i].e = "construct" => NewEvents[i].svc = s
       /\ NewEvents[i].e # "swift"
       /\ NewEvents[i].e = "image_data" => s = "glance"
       /\ NewEvents[i].e \in {"snapshot_create", "volume_create", "fetch",
                              "upload_to_image", "snapshot_delete"} => s = "cinder"

\* C18: provide_snapshot, do_copy_volume, make_glance_image and
\* clean_snapshot touch the cinder client only, download_image the glance
\* client only, a nova client is constructed by get_nova and create_nova
\* only, and clean_snapshot makes one delete request and nothing else.
C18_ClientsTouched ==
  [][/\ op' \in CinderOps => TouchesOnly("cinder")
     /\ op' = "download_image" => TouchesOnly("glance")
     /\ built'["nova"] # built["nova"] => op' \in {"get_nova", "create_nova"}
     /\ (op' = "clean_snapshot" /\ outcome'.kind = "returned")
          => /\ Len(RequestsOf(trace')) = 1
             /\ RequestsOf(trace')[1].e = "snapshot_delete"
             /\ outcome' = Returned(None)
             /\ pc' = "idle"]_vars

C18_Witness ==
  /\ op = "clean_snapshot"
  /\ calls = 3
  /\ outcome = Returned(None)
  /\ built = [s \in Services |-> IF s \in {"cinder", "glance"} THEN 1 ELSE 0]
  /\ CountEv(trace, "construct") = 1

\* ------------------------------------------------------------------ C14
Ceil(L, c) == (L + c - 1) \div c

\* C14: download_image returns an adapter over the fetched stream and its
\* length with chunk size 1,000,000; an adapter of length L and chunk size
\* c yields chunks that follow each other from byte 0, chunk i being c
\* bytes long unless it is the last of the ceil(L/c) chunks, which is
\* L mod c bytes long, or c when c divides L; when the adapter has ended it
\* has yielded ceil(L/c) chunks, L bytes in all, none iff L = 0.
C14_Rechunking ==
  (op \in {"download_image", "ReSizeStream"} /\ outcome.kind = "returned")
  => LET L == outcome.value.length
         c == outcome.value.chunk_size
         ch == ChunksOf(trace)
     IN /\ op = "download_image"
             => /\ c = 1000000
                /\ L = RequestsOf(trace)[1].length
                /\ outcome.value.stream = RequestsOf(trace)[1].image
        /\ Len(ch) <= Ceil(L, c)
        /\ \A i \in 1..Len(ch) :
             /\ ch[i].start = (i - 1) * c
             /\ ch[i].size = IF i < Ceil(L, c) THEN c
                             ELSE IF L % c = 0 THEN c ELSE L % c
        /\ CountEv(trace, "stop") = 1
             => /\ Len(ch) = Ceil(L, c)
                /\ Transmitted(trace) = L
                /\ (Len(ch) = 0 <=> L = 0)
                /\ trace[Len(trace)].e = "stop"

C14_Witness ==
  /\ op = "download_image"
  /\ outcome.kind = "returned"
  /\ outcome.value.length = 2500000
  /\ Len(ChunksOf(trace)) = 3
  /\ ChunksOf(trace)[3].size = 500000
  /\ CountEv(trace, "stop") = 1

\* ------------------------------------------------------------------ C15
\* C15: provide_snapshot leaves its loop only by an iteration whose fetch
\* answered "available", which it returns, or "error", on which it exits,
\* however many iterations came before, and it returns without a fetch
\* only an "available" creation response; when the fetches end up
\* answering "available" or "error", it does return or exit.
C15_EndsOnlyOnTerminalStatus ==
  /\ [][/\ (pc = "provide_snapshot" /\ pc' # "provide_snapshot")
            => /\ snapshot'.ver >= 1
               /\ snapshot' # snapshot
               /\ snapshot'.status \in {"available", "error"}
               /\ outcome' = IF snapshot'.status = "available"
                             THEN Returned(snapshot') ELSE Exited(ExitStatus)
        /\ (pc = "idle" /\ op' = "provide_snapshot" /\ outcome'.kind = "returned")
            => snapshot'.status = "available"
        /\ (pc = "idle" /\ op' = "provide_snapshot") => outcome'.kind # "exited"]_vars
  /\ (pc = "provide_snapshot") ~> (outcome.kind \in {"returned", "exited"})

C15_Witness ==
  /\ op = "provide_snapshot"
  /\ outcome.kind = "returned"
  /\ outcome.value.ver >= 4
  /\ CountEv(trace, "fetch") >= 3

\* ------------------------------------------------------------------ C16
\* C16: with get_cinder called by two callers at once, at most one cinder
\* client is constructed, and all callers are handed the same one, as long
\* as a lock around the call is in use; get_cinder itself takes none, and
\* without the lock two clients can be constructed and handed out.
C16_OneClientUnderLock ==
  lock # "unused" =>
    /\ built["cinder"] <= 1
    /\ \A t, u \in Threads :
         (threads[t].result.kind = "returned" /\ threads[u].result.kind = "returned")
           => threads[t].result = threads[u].result

\* Both callers found the slot empty, each constructed a client, and they
\* hold different ones.
C16_Witness ==
  /\ lock = "unused"
  /\ built["cinder"] = 2
  /\ \A t \in Threads : threads[t].pc = "idle" /\ threads[t].result.kind = "returned"
  /\ threads["t1"].result.value.kind = "Connection"
  /\ threads["t2"].result.value.kind = "Connection"
  /\ threads["t1"].result # threads["t2"].result

\* ------------------------------------------------------------------ C19
IsBlockStorageRequest(ev) ==
  ev.e \in {"snapshot_create", "volume_create", "upload_to_image",
            "snapshot_delete"}

BlockStorageRequests(tr) == SelectSeq(tr, IsBlockStorageRequest)

\* C19: two managers that differ only in dry_run and were given the same
\* calls and answers have sent the same block-storage requests and are in
\* the same state, but for the swift client they hold once create_swift is
\* over and a get_swift or create_swift has returned: the dry-run manager's is the wrapper around
\* the other's; and the manager behind can always take the step the one
\* ahead took.
C19_DryRunLeavesCinderAlone ==
  /\ InStep =>
       LET dry == IF dry_run THEN Here ELSE twin.st
           wet == IF dry_run THEN twin.st ELSE Here
       IN /\ dry.dry_run /\ ~wet.dry_run
          /\ BlockStorageRequests(dry.trace) = BlockStorageRequests(wet.trace)
          /\ dry.trace = wet.trace
          /\ dry.pc = wet.pc /\ dry.op = wet.op /\ dry.calls = wet.calls
          /\ dry.snapshot = wet.snapshot /\ dry.volume = wet.volume
          /\ dry.built = wet.built /\ dry.store = wet.store
          /\ \A s \in Services \ {"swift"} : dry.slot[s] = wet.slot[s]
          /\ dry.slot["swift"] =
               IF Truthy(wet.slot["swift"]) /\ wet.pc # "create_swift"
               THEN DryRunSwiftclientConnectionWrapper(wet.slot["swift"])
               ELSE wet.slot["swift"]
          /\ dry.outcome.kind = wet.outcome.kind
          /\ IF dry.op \in {"get_swift", "create_swift"}
             THEN dry.outcome.kind = "returned"
                    => dry.outcome.value =
                         DryRunSwiftclientConnectionWrapper(wet.outcome.value)
             ELSE dry.outcome = wet.outcome
  /\ Ahead(twin.st, Here) => ENABLED PairStep

\* After a get_swift, both managers have cleaned a snapshot.
C19_Witness ==
  /\ InStep
  /\ ~twin.fresh
  /\ op = "clean_snapshot" /\ twin.st.op = "clean_snapshot"
  /\ outcome.kind = "returned"
  /\ Len(BlockStorageRequests(trace)) = 1
  /\ Len(BlockStorageRequests(twin.st.trace)) = 1
  /\ Truthy(slot["swift"])
  /\ slot["swift"] # twin.st.slot["swift"]
====
